---- MODULE Spec2Model ----
(***************************************************************************)
(* FormView (src/src/form.rs): an ordered list of fields wrapped in a      *)
(* cursive Dialog with the buttons Cancel (0) and Submit (1).              *)
(*                                                                         *)
(* The FormField trait (crate module `fields`), its validators and the     *)
(* action dispatcher are not part of src/; the operators that model them   *)
(* are written from spec.md sections 4.2, 4.3 and 4.5.  The cursive Dialog *)
(* is an external toolkit: its on_event is a nondeterministic choice.      *)
(***************************************************************************)
EXTENDS Integers, Sequences, FiniteSets, TLC

\* ------------------------------------------------------------------ bounds
MaxFields == 2
MaxInvocations == 2

\* ------------------------------------------------------------- value model
\* Option<T>: None is the empty sequence, Some(x) a one-element sequence.
None == <<>>
Some(x) == <<x>>

Labels == {"a", "b"}
Texts == {"", "x", "y"}
RawInputs == {None} \cup {Some(t) : t \in Texts}

\* serde_json::Value, the variants a field produces.
Null == <<"Null", "">>
String(s) == <<"String", s>>

\* serde_json Map (insertion order preserved): a sequence of <<key, value>>.
MapKeys(m) == {m[i][1] : i \in 1..Len(m)}
MapInsert(m, k, v) ==
    IF k \in MapKeys(m)
    THEN [i \in 1..Len(m) |-> IF m[i][1] = k THEN <<k, v>> ELSE m[i]]
    ELSE Append(m, <<k, v>>)

\* std HashMap<String, String>: a set of <<key, value>>, one pair per key.
EmptyHashMap == {}
HashMapKeys(h) == {p[1] : p \in h}
HashMapInsert(h, k, v) == {p \in h : p[1] # k} \cup {<<k, v>>}
HashMapGetOr(h, k, dflt) ==
    IF k \in HashMapKeys(h) THEN (CHOOSE p \in h : p[1] = k)[2] ELSE dflt

\* --------------------------------------------------- fields and validators
\* spec.md 4.2: Required rejects absent or empty input; OneOf rejects input
\* outside its allowed set; each validator sees the original raw input.
OneOfAllowed == {"x"}
ValidatorLists == {<<>>, <<"Required">>, <<"Required", "OneOf">>}
FieldKinds == [label : Labels, validators : ValidatorLists]
\* The fields and the texts the interactive form is driven with.
BuilderKinds == [label : Labels, validators : {<<"Required">>}]
TypedInputs == {None, Some("x")}

RequiredMsg(label) == IF label = "a" THEN "a is required" ELSE "b is required"
OneOfMsg == "must be one of [x]"

ValidatorAccepts(v, raw) ==
    IF v = "Required"
    THEN raw # None /\ raw # Some("")
    ELSE raw # None /\ raw[1] \in OneOfAllowed
ValidatorMsg(v, label) == IF v = "Required" THEN RequiredMsg(label) ELSE OneOfMsg

\* Terminal coercion: Null for an empty field, else the String variant.
Coerce(raw) == IF raw = None \/ raw = Some("") THEN Null ELSE String(raw[1])

\* FormField::validate: first rejecting validator's message, else the value.
RECURSIVE RunValidators(_, _, _)
RunValidators(field, raw, k) ==
    IF k > Len(field.validators)
    THEN [ok |-> TRUE, v |-> Coerce(raw), e |-> ""]
    ELSE IF ValidatorAccepts(field.validators[k], raw)
         THEN RunValidators(field, raw, k + 1)
         ELSE [ok |-> FALSE, v |-> Null, e |-> ValidatorMsg(field.validators[k], field.label)]
Field_validate(field, raw) == RunValidators(field, raw, 1)

get_label(field) == field.label
\* FormField::build_widget: a fresh widget showing the field's label, with no
\* text and no error annotation.
build_widget(field) == [text |-> None, error |-> "", label |-> field.label]
\* FormField::clap_arg: the flag definition, named after the field, never
\* required at the flag level (spec.md 4.2).
clap_arg(field) == [name |-> field.label, required |-> FALSE]
\* WidgetManager::get_value / set_error on a child of the LinearLayout.
get_value(view) == view.text
set_error(view, e) == [view EXCEPT !.error = e]
\* FormField::clap_args2str: lookup of the field's name in the parsed flags.
clap_args2str(field, arg_matches) == arg_matches[field.label]

\* ------------------------------------------------------------------- state
VARIABLES fields, children, on_submit, on_cancel, focus, last, invocations, flag,
          registered

vars == <<fields, children, on_submit, on_cancel, focus, last, invocations, flag,
          registered>>

SubmitCallbacks == {"s1"}
CancelCallbacks == {"c1"}
\* The closures a form is given when the registration calls are what is observed.
SubmitClosures == {"s1", "s2"}
CancelClosures == {"c1", "c2"}
Focus == {"Content", "Button(0)", "Button(1)"}

\* cursive::event::EventResult
Ignored == [kind |-> "Ignored", cb |-> None]
Consumed(cb) == [kind |-> "Consumed", cb |-> cb]

\* cursive::event::Event, as <<variant, detail, detail>>.
MousePress(btn) == <<"Mouse", "Press", btn>>
MouseRelease(btn) == <<"Mouse", "Release", btn>>
KeyEnter == <<"Key", "Enter", "">>
CtrlChar(c) == <<"CtrlChar", c, "">>
Char(c) == <<"Char", c, "">>
MouseButtons == {"Left", "Right", "Middle"}
Events ==
    {MousePress(b) : b \in MouseButtons} \cup {MouseRelease("Left")}
        \cup {KeyEnter, CtrlChar("f"), Char("x")}

\* What the last call of wrap_on_event did: the event, the focus when it
\* was called, the handler it ran, the focus it read, what it handed to the
\* dialog and got back, its result, and its calls on the fields and their
\* widgets, in order.
NoEvent == [event |-> None, focusBefore |-> None, handler |-> "none", focusRead |-> None,
            forwarded |-> None, dialogResult |-> None, result |-> Ignored,
            calls |-> <<>>]

\* The registration calls made so far: the closure last passed to
\* set_on_submit and to set_on_cancel, and the closures that a later call of
\* the same kind was made over.
NoRegistration == [submit |-> None, cancel |-> None, replaced |-> {}]
Replaced(held, callback) == IF held = None \/ held = Some(callback) THEN {} ELSE {held[1]}

\* ------------------------------------------------------------ FormView::validate
RECURSIVE validate_loop(_, _, _, _, _, _)
validate_loop(fs, ch, idx, data, errors, calls) ==
    IF idx > Len(fs)
    THEN [data |-> data, errors |-> errors, calls |-> calls]
    ELSE LET field == fs[idx]
             view == ch[idx]
             value == get_value(view)
             label == get_label(field)
             r == Field_validate(field, value)
             calls2 == calls \o << <<"get_value", idx>>, <<"validate", idx>> >>
         IN  IF r.ok
             THEN validate_loop(fs, ch, idx + 1, MapInsert(data, label, r.v), errors, calls2)
             ELSE validate_loop(fs, ch, idx + 1, data, HashMapInsert(errors, label, r.e), calls2)

\* Result<Value, HashMap>: ok with the Object's map, or the error map.
validate(fs, ch) ==
    LET acc == validate_loop(fs, ch, 1, <<>>, EmptyHashMap, <<>>)
    IN  IF acc.errors = {}
        THEN [ok |-> TRUE, data |-> acc.data, errors |-> EmptyHashMap, calls |-> acc.calls]
        ELSE [ok |-> FALSE, data |-> <<>>, errors |-> acc.errors, calls |-> acc.calls]

\* ------------------------------------------------------- FormView::event_submit
\* The annotation loop if it also reset each widget's text.
set_errors_loop_resetting(fs, ch, errors, idx, calls) ==
    [children |-> [i \in 1..Len(ch) |->
                      [ch[i] EXCEPT !.text = None,
                                    !.error = HashMapGetOr(errors, get_label(fs[i]), "")]],
     calls |-> calls \o [i \in 1..Len(fs) |->
                           <<"set_error", i, HashMapGetOr(errors, get_label(fs[i]), "")>>]]
RECURSIVE set_errors_loop(_, _, _, _, _)
set_errors_loop(fs, ch, errors, idx, calls) ==
    IF idx > Len(fs)
    THEN [children |-> ch, calls |-> calls]
    ELSE LET label == get_label(fs[idx])
             e == HashMapGetOr(errors, label, "")
         IN  set_errors_loop(fs, [ch EXCEPT ![idx] = set_error(ch[idx], e)], errors,
                             idx + 1, Append(calls, <<"set_error", idx, e>>))

\* Callback::from_fn(move |c| cb(c, data_map.clone())): the callback and its argument.
SubmitCallback(cb, data_map) == [fn |-> cb, arg |-> Some(data_map)]
CancelCallback(cb) == [fn |-> cb, arg |-> None]

\* event_submit if it looked for a callback before validating.
event_submit_callback_first(fs, ch, onS) ==
    IF onS = None
    THEN [children |-> ch, result |-> Consumed(None), calls |-> <<>>]
    ELSE LET v == validate(fs, ch)
             s == set_errors_loop(fs, ch, v.errors, 1, v.calls)
         IN  IF v.ok
             THEN [children |-> ch, result |-> Consumed(Some(SubmitCallback(onS[1], v.data))),
                   calls |-> v.calls]
             ELSE [children |-> s.children, result |-> Consumed(None), calls |-> s.calls]
event_submit(fs, ch, onS) ==
    LET v == validate(fs, ch)
    IN  IF v.ok
        THEN LET opt_cb == IF onS = None THEN None ELSE Some(SubmitCallback(onS[1], v.data))
             IN  [children |-> ch, result |-> Consumed(opt_cb), calls |-> v.calls]
        ELSE LET s == set_errors_loop(fs, ch, v.errors, 1, v.calls)
             IN  [children |-> s.children, result |-> Consumed(None), calls |-> s.calls]

\* ------------------------------------------------------- FormView::event_cancel
event_cancel_latched(ch, onC) ==
    LET cb == IF onC = None \/ invocations > 0 THEN None ELSE Some(CancelCallback(onC[1]))
    IN  [children |-> ch, result |-> Consumed(cb), calls |-> <<>>]
event_cancel_validating(ch, onC) ==
    LET cb == IF onC = None THEN None ELSE Some(CancelCallback(onC[1]))
        s == event_submit(fields, ch, None)
    IN  [children |-> s.children, result |-> Consumed(cb), calls |-> s.calls]
event_cancel(ch, onC) ==
    LET cb == IF onC = None THEN None ELSE Some(CancelCallback(onC[1]))
    IN  [children |-> ch, result |-> Consumed(cb), calls |-> <<>>]

\* ------------------------------------------------------------ cursive Dialog
\* Dialog::on_event is the toolkit's: it may move the focus or edit the text
\* of one field widget, and returns a result of its own.  It never touches an
\* error annotation.
DialogResults == {Ignored, Consumed(None)}
DialogEdits(ch) ==
    {[ch EXCEPT ![i].text = t] : i \in 1..Len(ch), t \in TypedInputs} \ {ch}
DialogOnEvent(ch, fc) ==
    [focus : Focus, children : {ch}, result : DialogResults]
        \cup [focus : {fc}, children : DialogEdits(ch), result : {Consumed(None)}]
\* The stand-in for the dialog's answer on the paths that never ask it.
NoDialog(ch, fc) == [focus |-> fc, children |-> ch, result |-> Ignored]

\* ---------------------------------------------------- ViewWrapper::wrap_on_event
\* What one call did: the handler run, the focus read by self.view.focus(),
\* the widgets and focus afterwards, the event handed to the dialog and the
\* dialog's result (if it was asked), the result returned, the calls made.
Outcome(h, fr, ch, fc, fwd, dres, res, calls) ==
    [handler |-> h, focusRead |-> fr, children |-> ch, focus |-> fc,
     forwarded |-> fwd, dialogResult |-> dres, result |-> res, calls |-> calls]

\* match self.view.focus() { Button(0) => event_cancel, Button(1) => event_submit, _ => .. }
ButtonHandlerSwapped(fc) ==
    CASE fc = "Button(0)" -> "submit"
      [] fc = "Button(1)" -> "cancel"
      [] OTHER -> "none"
ButtonHandler(fc) ==
    CASE fc = "Button(0)" -> "cancel"
      [] fc = "Button(1)" -> "submit"
      [] OTHER -> "none"

RunHandler(h, fr, fs, ch, fc, onS, onC, fwd, dres) ==
    LET o == IF h = "cancel" THEN event_cancel(ch, onC) ELSE event_submit(fs, ch, onS)
    IN  Outcome(h, fr, o.children, fc, fwd, dres, o.result, o.calls)

\* self.with_view_mut(|v| v.on_event(event)).unwrap_or(EventResult::Ignored)
ForwardDropsResult(event, fr, dlg) ==
    Outcome("none", fr, dlg.children, dlg.focus, Some(event), Some(dlg.result), Ignored, <<>>)
Forward(event, fr, dlg) ==
    Outcome("none", fr, dlg.children, dlg.focus, Some(event), Some(dlg.result),
            dlg.result, <<>>)

\* wrap_on_event if a left press were routed by the focus it finds, before
\* the dialog has seen the press.
wrap_on_event_focus_first(event, fs, ch, fc, onS, onC, dlg) ==
    IF event = MousePress("Left")
    THEN LET h == ButtonHandler(fc)
         IN  IF h = "none"
             THEN Outcome("none", Some(fc), dlg.children, dlg.focus,
                          Some(event), Some(dlg.result), Ignored, <<>>)
             ELSE RunHandler(h, Some(fc), fs, dlg.children, dlg.focus,
                             onS, onC, Some(event), Some(dlg.result))
    ELSE IF event[1] = "Mouse" /\ event[2] = "Press"
    THEN Outcome("none", None, ch, fc, None, None, Ignored, <<>>)
    ELSE IF event = KeyEnter /\ ButtonHandler(fc) # "none"
    THEN RunHandler(ButtonHandler(fc), Some(fc), fs, ch, fc, onS, onC, None, None)
    ELSE IF event = CtrlChar("f")
    THEN RunHandler("submit", None, fs, ch, fc, onS, onC, None, None)
    ELSE Forward(event, IF event = KeyEnter THEN Some(fc) ELSE None, dlg)
\* dlg is what the dialog does with the event if it is handed to it.
wrap_on_event(event, fs, ch, fc, onS, onC, dlg) ==
    IF event[1] = "Mouse" /\ event[2] = "Press"
    THEN IF event[3] = "Left"
         THEN \* the press goes to the dialog first; its result is dropped
              LET h == ButtonHandler(dlg.focus)
              IN  IF h = "none"
                  THEN Outcome("none", Some(dlg.focus), dlg.children, dlg.focus,
                               Some(event), Some(dlg.result), Ignored, <<>>)
                  ELSE RunHandler(h, Some(dlg.focus), fs, dlg.children, dlg.focus,
                                  onS, onC, Some(event), Some(dlg.result))
         ELSE Outcome("none", None, ch, fc, None, None, Ignored, <<>>)
    ELSE IF event = KeyEnter
    THEN LET h == ButtonHandler(fc)
         IN  IF h = "none"
             THEN Forward(event, Some(fc), dlg)
             ELSE RunHandler(h, Some(fc), fs, ch, fc, onS, onC, None, None)
    ELSE IF event = CtrlChar("f")
    THEN RunHandler("submit", None, fs, ch, fc, onS, onC, None, None)
    ELSE \* default behaviour from ViewWrapper
         Forward(event, None, dlg)

\* Whether wrap_on_event hands the event to the dialog.
AsksDialog(event, fc) ==
    \/ event = MousePress("Left")
    \/ event = KeyEnter /\ ButtonHandler(fc) = "none"
    \/ ~(event[1] = "Mouse" /\ event[2] = "Press") /\ event # KeyEnter /\ event # CtrlChar("f")

\* ------------------------------------------------- FormView::fields2clap_args
RECURSIVE clap_args_loop(_, _, _)
clap_args_loop(fs, idx, args) ==
    IF idx > Len(fs)
    THEN args
    ELSE clap_args_loop(fs, idx + 1, Append(args, clap_arg(fs[idx])))
fields2clap_args(fs) == clap_args_loop(fs, 1, <<>>)

\* ------------------------------------------- FormView::clap_arg_matches2value
\* The parsed flags: each field name with its raw value, absent or present.
ArgMatches == [Labels -> RawInputs]

\* format!("ERROR: {:?}", e), printed with eprintln!
ErrorLine(e) == <<"ERROR: ", e>>

\* Err(e) => { let msg = format!(..); eprintln!("{}", msg); }
report_error_dropped(printed, e) == printed
report_error(printed, e) == Append(printed, ErrorLine(e))

\* The loop if it returned at the first rejected field.
RECURSIVE clap_loop_stopping(_, _, _, _, _)
clap_loop_stopping(fs, arg_matches, idx, form_data, printed) ==
    IF idx > Len(fs)
    THEN [value |-> form_data, printed |-> printed]
    ELSE LET field == fs[idx]
             r == Field_validate(field, clap_args2str(field, arg_matches))
         IN  IF r.ok
             THEN clap_loop_stopping(fs, arg_matches, idx + 1,
                                     MapInsert(form_data, get_label(field), r.v), printed)
             ELSE [value |-> form_data, printed |-> report_error(printed, r.e)]

RECURSIVE clap_loop(_, _, _, _, _)
clap_loop(fs, arg_matches, idx, form_data, printed) ==
    IF idx > Len(fs)
    THEN [value |-> form_data, printed |-> printed]
    ELSE LET field == fs[idx]
             data == clap_args2str(field, arg_matches)
             r == Field_validate(field, data)
         IN  IF r.ok
             THEN clap_loop(fs, arg_matches, idx + 1,
                            MapInsert(form_data, get_label(field), r.v), printed)
             ELSE clap_loop(fs, arg_matches, idx + 1, form_data,
                            report_error(printed, r.e))

Reversed(sq) == [i \in 1..Len(sq) |-> sq[Len(sq) + 1 - i]]
clap_arg_matches2value_reversed(fs, arg_matches) ==
    clap_loop(Reversed(fs), arg_matches, 1, <<>>, <<>>)
clap_arg_matches2value(fs, arg_matches) == clap_loop(fs, arg_matches, 1, <<>>, <<>>)

\* The action dispatcher's flag path (spec.md 4.5): the callback is skipped
\* for the whole action once an error was emitted for a field.
ActionCallback(value) == [fn |-> "action", arg |-> Some(value)]
run_flag_path(fs, arg_matches) ==
    LET r == clap_arg_matches2value(fs, arg_matches)
    IN  [ran |-> TRUE, matches |-> arg_matches, value |-> r.value, printed |-> r.printed,
         invoked |-> IF r.printed = <<>> THEN Some(ActionCallback(r.value)) ELSE None]

NoFlagRun == [ran |-> FALSE, matches |-> [l \in Labels |-> None], value |-> <<>>,
              printed |-> <<>>, invoked |-> None]

\* ----------------------------------------------------------------- actions
TypeOK ==
    /\ fields \in Seq(FieldKinds) /\ Len(fields) <= MaxFields
    /\ Len(children) = Len(fields)
    /\ \A i \in 1..Len(children) : children[i].text \in RawInputs
    /\ on_submit \in {None} \cup {Some(c) : c \in SubmitClosures}
    /\ on_cancel \in {None} \cup {Some(c) : c \in CancelClosures}
    /\ focus \in Focus
    /\ invocations \in 0..MaxInvocations
    /\ registered.submit \in {None} \cup {Some(c) : c \in SubmitClosures}
    /\ registered.cancel \in {None} \cup {Some(c) : c \in CancelClosures}

\* FormView::new
Init ==
    /\ fields = <<>>
    /\ children = <<>>
    /\ on_submit = None
    /\ on_cancel = None
    /\ focus = "Content"
    /\ last = NoEvent
    /\ invocations = 0
    /\ flag = NoFlagRun
    /\ registered = NoRegistration

\* The builder methods take the form by value: they run before the form is
\* handed to the event loop.
Building == last = NoEvent

\* FormView::field
AddFieldWidgetOnTop(field) ==
    /\ Building
    /\ Len(fields) < MaxFields
    /\ children' = <<build_widget(field)>> \o children
    /\ fields' = Append(fields, field)
    /\ UNCHANGED <<on_submit, on_cancel, focus, last, invocations, flag, registered>>
AddField(field) ==
    /\ Building
    /\ Len(fields) < MaxFields
    /\ children' = Append(children, build_widget(field))
    /\ fields' = Append(fields, field)
    /\ UNCHANGED <<on_submit, on_cancel, focus, last, invocations, flag, registered>>

\* FormView::set_on_submit, FormView::on_submit
SetOnSubmitKeepsFirst(callback) ==
    /\ Building
    /\ on_submit' = IF on_submit = None THEN Some(callback) ELSE on_submit
    /\ registered' = [registered EXCEPT !.submit = Some(callback),
                          !.replaced = @ \cup Replaced(registered.submit, callback)]
    /\ UNCHANGED <<fields, children, on_cancel, focus, last, invocations, flag>>
SetOnSubmit(callback) ==
    /\ Building
    /\ on_submit' = Some(callback)
    /\ registered' = [registered EXCEPT !.submit = Some(callback),
                          !.replaced = @ \cup Replaced(registered.submit, callback)]
    /\ UNCHANGED <<fields, children, on_cancel, focus, last, invocations, flag>>

\* FormView::set_on_cancel, FormView::on_cancel
SetOnCancel(callback) ==
    /\ Building
    /\ on_cancel' = Some(callback)
    /\ registered' = [registered EXCEPT !.cancel = Some(callback),
                          !.replaced = @ \cup Replaced(registered.cancel, callback)]
    /\ UNCHANGED <<fields, children, on_submit, focus, last, invocations, flag>>

\* One event through wrap_on_event; cursive then runs the callback the result
\* carries, once.
Deliver(event, dlg) ==
    \E o \in {wrap_on_event(event, fields, children, focus, on_submit, on_cancel, dlg)} :
        /\ children' = o.children
        /\ focus' = o.focus
        /\ last' = [event |-> Some(event), focusBefore |-> Some(focus),
                    handler |-> o.handler,
                    focusRead |-> o.focusRead, forwarded |-> o.forwarded,
                    dialogResult |-> o.dialogResult, result |-> o.result,
                    calls |-> o.calls]
        /\ invocations' = IF o.result.cb # None THEN invocations + 1 ELSE invocations
        /\ UNCHANGED <<fields, on_submit, on_cancel, flag, registered>>

OnEvent(event) ==
    /\ invocations < MaxInvocations
    /\ IF AsksDialog(event, focus)
       THEN \E dlg \in DialogOnEvent(children, focus) : Deliver(event, dlg)
       ELSE Deliver(event, NoDialog(children, focus))

Next ==
    \/ \E field \in BuilderKinds : AddField(field)
    \/ \E callback \in SubmitCallbacks : SetOnSubmit(callback)
    \/ \E callback \in CancelCallbacks : SetOnCancel(callback)
    \/ \E event \in Events : OnEvent(event)

Spec == Init /\ [][Next]_vars

\* ------------------------------------------------- registration, then events
\* The builder given two closures of each kind, any number of times, then the
\* events that reach a handler.
RegistrationEvents == {MousePress("Left"), CtrlChar("f")}
RegisterKinds == [label : {"a"}, validators : {<<"Required">>}]
NextRegister ==
    \/ \E field \in RegisterKinds : AddField(field)
    \/ \E callback \in SubmitClosures : SetOnSubmit(callback)
    \/ \E callback \in CancelClosures : SetOnCancel(callback)
    \/ \E event \in RegistrationEvents : OnEvent(event)

SpecRegister == Init /\ [][NextRegister]_vars

\* ------------------------------------------------- the two front ends, as functions
\* Any form of up to MaxFields fields, its widgets holding any raw text.
Forms == UNION {[1..n -> FieldKinds] : n \in 0..MaxFields}
InitFlag ==
    /\ fields \in Forms
    /\ children \in {[i \in 1..Len(fields) |-> [build_widget(fields[i]) EXCEPT !.text = t[i]]] :
                        t \in [1..Len(fields) -> RawInputs]}
    /\ on_submit = None
    /\ on_cancel = None
    /\ focus = "Content"
    /\ last = NoEvent
    /\ invocations = 0
    /\ flag = NoFlagRun
    /\ registered = NoRegistration

\* The dispatcher's flag path on the parsed flags.
RunFlagPath(arg_matches) ==
    /\ flag' = run_flag_path(fields, arg_matches)
    /\ UNCHANGED <<fields, children, on_submit, on_cancel, focus, last, invocations,
                   registered>>

NextFlag == \E arg_matches \in ArgMatches : RunFlagPath(arg_matches)

SpecFlag == InitFlag /\ [][NextFlag]_vars
\* ------------------------------------------------------------------ claims
LabelSet == {get_label(fields[i]) : i \in 1..Len(fields)}
\* The outcome of field i's own validation of its widget's current text.
FieldResult(i) == Field_validate(fields[i], get_value(children[i]))
Failing == {i \in 1..Len(fields) : ~FieldResult(i).ok}
Passing == {i \in 1..Len(fields) : FieldResult(i).ok}
SubmitHandled == last.handler = "submit"
CancelHandled == last.handler = "cancel"

\* C1: validate returns Ok iff every field accepts its raw text; otherwise
\* the error map has exactly one entry per failing field, keyed by that
\* field's label and holding that field's message, and no entry for a
\* passing field.
C1_ErrorPerFailingField ==
    LET v == validate(fields, children)
    IN  /\ v.ok <=> Failing = {}
        /\ ~v.ok =>
             /\ Cardinality(v.errors) = Cardinality(Failing)
             /\ \A i \in Failing : <<get_label(fields[i]), FieldResult(i).e>> \in v.errors
             /\ \A i \in Passing : get_label(fields[i]) \notin HashMapKeys(v.errors)

\* C2: a submit on which some field fails sets every failing field's widget
\* error to that field's message and every passing field's widget error to
\* the empty message, is Consumed with no callback, invokes nothing, and
\* leaves the form open to a later submit.
C2_FailedSubmitAnnotates ==
    (SubmitHandled /\ Failing # {}) =>
        /\ \A i \in Failing :
             /\ children[i].error = FieldResult(i).e
             /\ \E k \in 1..Len(last.calls) : last.calls[k] = <<"set_error", i, FieldResult(i).e>>
        /\ \A i \in Passing :
             /\ children[i].error = ""
             /\ \E k \in 1..Len(last.calls) : last.calls[k] = <<"set_error", i, "">>
        /\ last.result = Consumed(None)
        /\ ENABLED OnEvent(CtrlChar("f"))

\* C3: a submit on which every field validates, with on_submit registered, is
\* Consumed carrying one invocation of on_submit on the Object validate
\* returned, which has one entry per field keyed by its label; the form is
\* then Submitted.
C3_SuccessfulSubmitInvokes ==
    (SubmitHandled /\ Failing = {} /\ on_submit # None) =>
        LET v == validate(fields, children)
        IN  /\ v.ok
            /\ last.result = Consumed(Some(SubmitCallback(on_submit[1], v.data)))
            /\ Len(v.data) = Len(fields)
            /\ \A i \in 1..Len(fields) : v.data[i][1] = get_label(fields[i])
            /\ invocations >= 1

\* C4 (as claimed): over any sequence of events delivered to one form, the
\* invocations of on_submit and on_cancel total at most one.
C4_AtMostOneInvocation == invocations <= 1

\* C4 (amended): each event invokes at most one callback, on_submit only from
\* the submit handler and on_cancel only from the cancel handler; the form
\* keeps no terminal state, so a cancel, or a submit on which every field
\* validates, invokes the registered callback however many came before.
C4_EveryEventInvokesAgain ==
    /\ last.result.cb # None =>
         \/ SubmitHandled /\ on_submit # None /\ last.result.cb[1].fn = on_submit[1]
         \/ CancelHandled /\ on_cancel # None /\ last.result.cb[1].fn = on_cancel[1]
    /\ (CancelHandled /\ on_cancel # None) => last.result.cb # None
    /\ (SubmitHandled /\ Failing = {} /\ on_submit # None) => last.result.cb # None
C4_SecondInvocation ==
    invocations = 2 /\ CancelHandled /\ last.result.cb # None

\* C5 (as claimed): a cancel event invokes on_cancel exactly once, never
\* on_submit, and makes no call on a field or its widget.
C5_CancelInvokesOnCancel ==
    CancelHandled =>
        /\ last.result.cb # None
        /\ last.result.cb[1].fn \in CancelCallbacks
        /\ last.calls = <<>>

\* C5 (amended): a cancel event invokes on_cancel exactly once when one is
\* registered and nothing when none is; it never invokes on_submit, reads no
\* widget, runs no validate and leaves every error annotation as it was,
\* whatever the fields contain.
C5_CancelSkipsValidation ==
    [][last'.handler = "cancel" =>
         /\ last'.result = Consumed(IF on_cancel = None THEN None
                                    ELSE Some(CancelCallback(on_cancel[1])))
         /\ last'.calls = <<>>
         /\ \A i \in 1..Len(children) : children'[i].error = children[i].error]_vars
C5_CancelOnInvalidContent ==
    CancelHandled /\ on_cancel # None /\ Failing # {} /\ last.result.cb # None

\* C6: Enter or a left press runs the cancel handler when the focus read is
\* on Cancel (button 0) and the submit handler when it is on Submit
\* (button 1); Ctrl+F runs the submit handler whatever has focus; nothing
\* else runs either handler.
C6_Routing ==
    last.event # None =>
        LET ev == last.event[1]
            byFocus == ev \in {MousePress("Left"), KeyEnter}
        IN  /\ CancelHandled <=> (byFocus /\ last.focusRead = Some("Button(0)"))
            /\ SubmitHandled <=>
                 \/ byFocus /\ last.focusRead = Some("Button(1)")
                 \/ ev = CtrlChar("f")
            /\ byFocus => last.focusRead # None
            /\ (byFocus /\ last.handler # "none") => last.focusRead = Some(focus)
C6_CtrlFFromField ==
    last.event = Some(CtrlChar("f")) /\ focus = "Content" /\ SubmitHandled

\* C7 (as claimed): every event that runs neither handler is handed to the
\* dialog unmodified and the dialog's result is the result reported.
C7_AllOthersForwarded ==
    (last.event # None /\ last.handler = "none") =>
        /\ last.forwarded = last.event
        /\ last.dialogResult = Some(last.result)

\* C7 (amended): an event that is no mouse press and runs neither handler is
\* handed to the dialog unmodified and the dialog's result is reported; a
\* left press is handed to the dialog too but its result is dropped, and
\* Ignored is reported when the focus is then on neither button; a right or
\* middle press is not handed to the dialog and is reported Ignored.
C7_ForwardedUnlessMousePress ==
    (last.event # None /\ last.handler = "none") =>
        LET ev == last.event[1]
        IN  IF ev[1] = "Mouse" /\ ev[2] = "Press"
            THEN /\ last.result = Ignored
                 /\ last.forwarded = (IF ev[3] = "Left" THEN Some(ev) ELSE None)
            ELSE /\ last.forwarded = Some(ev)
                 /\ last.dialogResult = Some(last.result)
C7_KeyConsumedByDialog ==
    /\ last.event = Some(Char("x"))
    /\ last.forwarded = last.event
    /\ last.result = Consumed(None)

\* C1, C2 and C3 restricted to the forms whose fields have pairwise distinct
\* labels (FormView::field checks nothing about the label it is given).
UniqueLabels ==
    \A i, j \in 1..Len(fields) : get_label(fields[i]) = get_label(fields[j]) => i = j
C1_HoldsForUniqueLabels == UniqueLabels => C1_ErrorPerFailingField
C2_HoldsForUniqueLabels == UniqueLabels => C2_FailedSubmitAnnotates
C3_HoldsForUniqueLabels == UniqueLabels => C3_SuccessfulSubmitInvokes

\* The raw value each field gets from the parsed flags of the last flag run.
FlagResult(i) == Field_validate(fields[i], clap_args2str(fields[i], flag.matches))
FlagFailing == {i \in 1..Len(fields) : ~FlagResult(i).ok}

\* C8: every Object a form produces, by validate returning Ok and by
\* clap_arg_matches2value, has exactly the declared field labels as its keys,
\* also on inputs on which some field fails validation.
C8_ObjectKeysAreLabels ==
    /\ validate(fields, children).ok => MapKeys(validate(fields, children).data) = LabelSet
    /\ flag.ran => MapKeys(flag.value) = LabelSet

SameRawInput == \A i \in 1..Len(fields) : get_value(children[i]) = clap_args2str(fields[i], flag.matches)
C10_FrontEndsAgree ==
    (flag.ran /\ SameRawInput /\ FlagFailing = {}) =>
        /\ validate(fields, children).ok
        /\ flag.value = validate(fields, children).data
C10_TwoFieldsBothPaths ==
    /\ flag.ran /\ SameRawInput /\ FlagFailing = {}
    /\ Len(fields) = 2 /\ get_label(fields[1]) # get_label(fields[2])
    /\ flag.value = validate(fields, children).data

\* C11: validate is idempotent and read-only.  A second call made right after
\* the submit handler's own call, with no event in between, returns what the
\* first returned (the same verdict, the same Object handed to on_submit, the
\* same error map written to the annotations); validate only reads (its calls
\* are get_value and validate), and the handler that runs it changes neither
\* the field list, the callbacks nor a widget's text, and no annotation
\* unless validation failed.
RanSetError(calls) == \E k \in 1..Len(calls) : calls[k][1] = "set_error"
C11_ValidateIdempotentReadOnly ==
    [][last'.handler = "submit" =>
         \E v \in {validate(fields', children')} :
             /\ v.ok <=> ~RanSetError(last'.calls)
             /\ \A k \in 1..Len(v.calls) : v.calls[k][1] \in {"get_value", "validate"}
             /\ SubSeq(last'.calls, 1, Len(v.calls)) = v.calls
             /\ v.ok =>
                  /\ last'.calls = v.calls
                  /\ last'.result =
                       Consumed(IF on_submit = None THEN None
                                ELSE Some(SubmitCallback(on_submit[1], v.data)))
             /\ ~v.ok =>
                  \A i \in 1..Len(fields) :
                      children'[i].error = HashMapGetOr(v.errors, get_label(fields[i]), "")
             /\ fields' = fields /\ on_submit' = on_submit /\ on_cancel' = on_cancel
             /\ ~AsksDialog(last'.event[1], focus) =>
                  /\ \A i \in 1..Len(fields) : children'[i].text = children[i].text
                  /\ validate(fields, children) = v
                  /\ v.ok => children' = children]_vars
C11_SecondCallAfterFailedSubmit ==
    /\ SubmitHandled /\ last.event = Some(CtrlChar("f"))
    /\ Failing # {} /\ Passing # {}
    /\ RanSetError(last.calls)
    /\ ~validate(fields, children).ok

\* C12: registration is last-wins.  The form holds, per kind, no callback
\* before the first registration and after it exactly the closure passed to
\* the last set_on_submit (set_on_cancel) call; a submit or cancel that
\* invokes a callback invokes that closure; a registration of one kind leaves
\* the other kind's callback as it was.
C12_HoldsLastRegistered ==
    /\ on_submit = registered.submit
    /\ on_cancel = registered.cancel
    /\ last.result.cb # None =>
         last.result.cb[1].fn = (IF SubmitHandled THEN registered.submit[1]
                                 ELSE registered.cancel[1])
C12_LastRegistrationWins ==
    /\ []C12_HoldsLastRegistered
    /\ [][/\ on_submit' # on_submit => on_cancel' = on_cancel
          /\ on_cancel' # on_cancel => on_submit' = on_submit]_vars
C12_ReplacedCallbackNotInvoked ==
    /\ registered.replaced = {"s1", "c1"}
    /\ registered.submit = Some("s2") /\ registered.cancel = Some("c2")
    /\ SubmitHandled
    /\ last.result.cb # None /\ last.result.cb[1].fn = "s2"

\* C13: in every form built by field(f) calls no two fields have the same
\* label, so the Object validate returns has one entry per (passing) field
\* and its error map one entry per failing field.
C13_LabelsUnique ==
    /\ UniqueLabels
    /\ LET v == validate(fields, children)
       IN  /\ v.ok => Len(v.data) = Len(fields)
           /\ ~v.ok => Cardinality(v.errors) = Cardinality(Failing)

\* C14: on the flag path no validation error is dropped and none stops the
\* evaluation: clap_arg_matches2value reports one error line for each field
\* that rejects its parsed value, in declaration order, also after an earlier
\* field has failed, and every accepted field, also a later one, is evaluated
\* and put into the Object.
C14_EveryRejectionReported ==
    flag.ran =>
        /\ Len(flag.printed) = Cardinality(FlagFailing)
        /\ \E at \in [1..Len(flag.printed) -> FlagFailing] :
              /\ \A j, k \in 1..Len(flag.printed) : j < k => at[j] < at[k]
              /\ \A k \in 1..Len(flag.printed) :
                    flag.printed[k] = ErrorLine(FlagResult(at[k]).e)
        /\ MapKeys(flag.value) =
              {get_label(fields[i]) : i \in (1..Len(fields)) \ FlagFailing}
C14_TwoRejectionsTwoLines ==
    /\ flag.ran /\ Len(fields) = 2 /\ FlagFailing = {1, 2}
    /\ FlagResult(1).e # FlagResult(2).e
    /\ flag.printed = <<ErrorLine(FlagResult(1).e), ErrorLine(FlagResult(2).e)>>

\* C15: after any sequence of field(f) calls, and through every event, the
\* container has as many children as the form has fields, the child at
\* index i is the widget built from the field at index i, and
\* fields2clap_args returns one flag definition per field, in declaration
\* order; so get_child(idx) finds a child for every idx the loops of
\* validate and event_submit use.
C15_OrderAndPosition ==
    /\ Len(children) = Len(fields)
    /\ \A i \in 1..Len(fields) :
          /\ i \in DOMAIN children
          /\ children[i].label = build_widget(fields[i]).label
    /\ LET args == fields2clap_args(fields)
       IN  /\ Len(args) = Len(fields)
           /\ \A i \in 1..Len(fields) : args[i] = clap_arg(fields[i])
    /\ \A k \in 1..Len(last.calls) : last.calls[k][2] \in DOMAIN children
C15_TwoFieldsTwoWidgets ==
    /\ Len(fields) = 2 /\ get_label(fields[1]) = "b" /\ get_label(fields[2]) = "a"
    /\ children[1].label = "b" /\ children[2].label = "a"
    /\ fields2clap_args(fields) = <<clap_arg(fields[1]), clap_arg(fields[2])>>
    /\ SubmitHandled /\ RanSetError(last.calls)

\* C16: a left press is handed to the dialog first and the focus is read
\* afterwards, so the handler is chosen by the focus the press leaves: a
\* press that leaves the focus on Submit (Cancel) runs the submit (cancel)
\* handler in that same event, also when the focus was on a field before,
\* and a press that leaves it on a field runs neither handler and is
\* Ignored, also when the focus was on a button before.
C16_PressRoutedByFocusAfter ==
    last.event = Some(MousePress("Left")) =>
        /\ last.forwarded = last.event
        /\ last.dialogResult # None
        /\ last.focusRead = Some(focus)
        /\ focus = "Button(1)" => SubmitHandled
        /\ focus = "Button(0)" => CancelHandled
        /\ focus = "Content" => (last.handler = "none" /\ last.result = Ignored)
C16_PressMovesFocusOntoSubmit ==
    /\ last.event = Some(MousePress("Left"))
    /\ last.focusBefore = Some("Content") /\ focus = "Button(1)"
    /\ SubmitHandled /\ last.result.cb # None
C16_PressMovesFocusOffCancel ==
    /\ last.event = Some(MousePress("Left"))
    /\ last.focusBefore = Some("Button(0)") /\ focus = "Content"
    /\ last.handler = "none" /\ last.result = Ignored

\* C17: with no callback registered, submit and cancel are still consumed and
\* invoke nothing.  A cancel with on_cancel unset is Consumed with no
\* callback and calls nothing.  A submit with on_submit unset validates every
\* field, is Consumed with no callback, and when a field fails leaves the
\* annotations and makes the calls that the same submit makes with a
\* callback registered: each failing field's message on its widget, the
\* empty message on each passing field's.
C17_UnregisteredStillConsumed ==
    /\ (CancelHandled /\ on_cancel = None) =>
         (last.result = Consumed(None) /\ last.calls = <<>>)
    /\ (SubmitHandled /\ on_submit = None) =>
         /\ last.result = Consumed(None)
         /\ \A i \in 1..Len(fields) :
               \E k \in 1..Len(last.calls) : last.calls[k] = <<"validate", i>>
         /\ \E r \in {event_submit(fields, children, Some("s1"))} :
               /\ r.calls = last.calls
               /\ Failing # {} => (r.children = children /\ r.result = last.result)
               /\ Failing = {} => r.result.cb # None
         /\ Failing # {} =>
               \A i \in 1..Len(fields) :
                   children[i].error =
                       HashMapGetOr(validate(fields, children).errors, get_label(fields[i]), "")
C17_UnregisteredSubmitAnnotates ==
    /\ SubmitHandled /\ on_submit = None /\ on_cancel = None
    /\ last.result = Consumed(None)
    /\ Failing # {} /\ Passing # {}
    /\ \E i \in Failing : children[i].error # ""
    /\ \A i \in Passing : children[i].error = ""
C17_UnregisteredCancelConsumed ==
    CancelHandled /\ on_cancel = None /\ last.result = Consumed(None)
====
